---- MODULE Spec2Model ----
(***************************************************************************)
(* A model of autosort.py, the WeeChat buffer sorting script.              *)
(*                                                                         *)
(* The script is Python 2 (json.dumps(map(...)) in RuleList.encode and     *)
(* map(...) as a list in preprocess only work there), so library calls     *)
(* (re, json, int, list.sort) are modelled with their Python 2.7           *)
(* behaviour.                                                              *)
(*                                                                         *)
(* Strings are sequences of one-character strings.  Exceptions are the     *)
(* `exc' field of a result: "" means the call returned normally.           *)
(***************************************************************************)
EXTENDS Integers, Sequences, FiniteSets, TLC

VARIABLES
    rulelist,        \* config.rules: the RuleList object (or what decode returned)
    option_rules,    \* the value of the configuration option autosort.sorting.rules
    case_sensitive,  \* config.case_sensitive
    group_irc,       \* config.group_irc
    host,            \* WeeChat's buffer list: full names in buffer-number order
    call,            \* the last call made: its name, arguments, result and effects
    pre,             \* the state the last call started from
    ncalls,          \* how many callbacks have run (bounded by MaxCalls)
    pattern,         \* argument of Pattern.__init__
    input,           \* argument of Pattern.match
    obj,             \* the Pattern object constructed from `pattern'
    matched          \* result of obj.match(input)

vars == <<rulelist, option_rules, case_sensitive, group_irc, host, call, pre,
          ncalls, pattern, input, obj, matched>>

(***************************************************************************)
(* Characters.  Chars lists the characters of the model in ascending       *)
(* code-point order, so that Ord compares as Python compares characters.   *)
(***************************************************************************)
Chars ==
    << "#", "*", "+", "-", ".",
       "0", "1", "2", "3", "4", "5", "6", "7", "8", "9",
       "?", "C", "I", "R", "[", "\\", "]", "^", "_",
       "a", "b", "c", "d", "e", "f", "g", "h", "i", "j", "k", "l", "m",
       "n", "o", "p", "q", "r", "s", "t", "u", "v", "w", "x", "y", "z" >>

CharSet == { Chars[i] : i \in 1..Len(Chars) }

OrdOf == [ c \in CharSet |-> CHOOSE i \in 1..Len(Chars) : Chars[i] = c ]

Ord(c) == OrdOf[c]

Digits == { "0", "1", "2", "3", "4", "5", "6", "7", "8", "9" }

UpperCase == { "C", "I", "R" }

IsAlnum(c) == c \in Digits \/ c \in UpperCase \/ Ord(c) >= Ord("a")

\* str.lower() on one character
LowerChar(c) ==
    CASE c = "C" -> "c"
      [] c = "I" -> "i"
      [] c = "R" -> "r"
      [] OTHER   -> c

Lower(s) == [ i \in 1..Len(s) |-> LowerChar(s[i]) ]

\* Python's < on two strings: by code point, a strict prefix first.
RECURSIVE StrLess(_, _)
StrLess(a, b) ==
    IF a = <<>> THEN b # <<>>
    ELSE IF b = <<>> THEN FALSE
    ELSE IF a[1] # b[1] THEN Ord(a[1]) < Ord(b[1])
    ELSE StrLess(Tail(a), Tail(b))

Max(a, b) == IF a >= b THEN a ELSE b

(***************************************************************************)
(* The re module, for the regular expressions Pattern.__init__ can build.  *)
(***************************************************************************)

\* re.escape(c) on a one-character string: a backslash before anything
\* that is not alphanumeric.
ReEscape(c) == IF IsAlnum(c) THEN <<c>> ELSE <<"\\", c>>

\* re.escape([c]): the argument is a list, and re.escape ends in
\* pattern[:0].join(s), which a list does not have.
ReEscapeList(c) == [exc |-> "AttributeError", text |-> <<>>]

\* Parsed regular expression items.
\*   k = "at_beginning" | "at_end" | "literal" | "in"
ReItem(k, c, neg, set, star) ==
    [k |-> k, c |-> c, neg |-> neg, set |-> set, star |-> star]

ReLiteral(c) == ReItem("literal", c, FALSE, <<>>, FALSE)

\* sre_parse on the inside of a character class, from position i of t.
\* set collects <<lo, hi>> ranges (a single member is <<c, c>>).
RECURSIVE SreClass(_, _, _)
SreClass(t, i, set) ==
    IF i > Len(t) THEN [exc |-> "error", set |-> set, next |-> i]
    ELSE IF t[i] = "]" /\ set # <<>> THEN [exc |-> "", set |-> set, next |-> i + 1]
    ELSE IF t[i] = "\\" /\ i + 1 > Len(t) THEN [exc |-> "error", set |-> set, next |-> i]
    ELSE
      LET code1 == IF t[i] = "\\" THEN t[i + 1] ELSE t[i]
          j     == IF t[i] = "\\" THEN i + 2 ELSE i + 1
      IN  IF j <= Len(t) /\ t[j] = "-"
          THEN \* potential range
               IF j + 1 > Len(t) THEN [exc |-> "error", set |-> set, next |-> j]
               ELSE IF t[j + 1] = "]"
               THEN [exc |-> "",
                     set |-> set \o << <<code1, code1>>, <<"-", "-">> >>,
                     next |-> j + 2]
               ELSE IF t[j + 1] = "\\" /\ j + 2 > Len(t)
               THEN [exc |-> "error", set |-> set, next |-> j]
               ELSE
                 LET code2 == IF t[j + 1] = "\\" THEN t[j + 2] ELSE t[j + 1]
                     k     == IF t[j + 1] = "\\" THEN j + 3 ELSE j + 2
                 IN  IF Ord(code2) < Ord(code1)
                     THEN [exc |-> "error", set |-> set, next |-> j]  \* bad character range
                     ELSE SreClass(t, k, Append(set, <<code1, code2>>))
          ELSE SreClass(t, j, Append(set, <<code1, code1>>))

\* sre_parse on the whole expression, from position i of t.
RECURSIVE SreParse(_, _, _)
SreParse(t, i, items) ==
    IF i > Len(t) THEN [exc |-> "", items |-> items]
    ELSE IF t[i] = "[" THEN
        LET neg == i + 1 <= Len(t) /\ t[i + 1] = "^"
            cls == SreClass(t, IF neg THEN i + 2 ELSE i + 1, <<>>)
        IN  IF cls.exc # "" THEN [exc |-> cls.exc, items |-> items]
            ELSE SreParse(t, cls.next, Append(items, ReItem("in", "", neg, cls.set, FALSE)))
    ELSE IF t[i] = "*" THEN
        IF items = <<>> \/ items[Len(items)].k \notin {"literal", "in"}
                        \/ items[Len(items)].star
        THEN [exc |-> "error", items |-> items]      \* nothing to repeat
        ELSE SreParse(t, i + 1, [items EXCEPT ![Len(items)].star = TRUE])
    ELSE IF t[i] = "\\" THEN
        IF i + 1 > Len(t) THEN [exc |-> "error", items |-> items]
        ELSE SreParse(t, i + 2, Append(items, ReLiteral(t[i + 1])))
    ELSE IF t[i] = "^" THEN
        SreParse(t, i + 1, Append(items, ReItem("at_beginning", "", FALSE, <<>>, FALSE)))
    ELSE IF t[i] = "$" THEN
        SreParse(t, i + 1, Append(items, ReItem("at_end", "", FALSE, <<>>, FALSE)))
    ELSE SreParse(t, i + 1, Append(items, ReLiteral(t[i])))

\* re.compile(text)
ReCompile(t) == SreParse(t, 1, <<>>)

\* Whether one item accepts the character c.
ItemAccepts(item, c) ==
    IF item.k = "literal" THEN item.c = c
    ELSE LET member == \E m \in 1..Len(item.set) :
                          Ord(item.set[m][1]) <= Ord(c) /\ Ord(c) <= Ord(item.set[m][2])
         IN  IF item.neg THEN ~member ELSE member

\* Whether items[k..] can match s from position p on.
RECURSIVE ReMatchFrom(_, _, _, _)
ReMatchFrom(items, k, s, p) ==
    IF k > Len(items) THEN TRUE
    ELSE IF items[k].k = "at_beginning" THEN p = 1 /\ ReMatchFrom(items, k + 1, s, p)
    ELSE IF items[k].k = "at_end" THEN p = Len(s) + 1 /\ ReMatchFrom(items, k + 1, s, p)
    ELSE IF items[k].star THEN
        \E q \in p..(Len(s) + 1) :
            /\ \A r \in p..(q - 1) : ItemAccepts(items[k], s[r])
            /\ ReMatchFrom(items, k + 1, s, q)
    ELSE /\ p <= Len(s)
         /\ ItemAccepts(items[k], s[p])
         /\ ReMatchFrom(items, k + 1, s, p + 1)

\* regex.match(s): a match starting at the beginning of s.
ReMatch(items, s) == ReMatchFrom(items, 1, s, 1)

(***************************************************************************)
(* class Pattern                                                           *)
(***************************************************************************)

\* Mutant of PatternChar: '*' and '?' are translated without the negation
\* of the class, to [.]* and [.].
PatternCharDotClass(st, c) ==
    IF st.escaped THEN [st EXCEPT !.escaped = FALSE, !.exc = ReEscapeList(c).exc]
    ELSE IF c = "\\" THEN [st EXCEPT !.escaped = TRUE]
    ELSE IF c = "*" THEN [st EXCEPT !.regex = @ \o <<"[", ".", "]", "*">>]
    ELSE IF c = "?" THEN [st EXCEPT !.regex = @ \o <<"[", ".", "]">>]
    ELSE IF c = "[" /\ ~st.char_class THEN
        [st EXCEPT !.char_class = TRUE, !.chars = <<>>]
    ELSE IF c = "^" /\ st.char_class /\ st.chars = <<>> THEN
        [st EXCEPT !.chars = @ \o <<"^">>]
    ELSE IF c = "]" /\ st.char_class /\ st.chars \notin {<<>>, <<"^">>} THEN
        [st EXCEPT !.char_class = FALSE,
                   !.regex = @ \o <<"[">> \o st.chars \o <<"]">>]
    ELSE IF c = "-" /\ st.char_class THEN [st EXCEPT !.chars = @ \o <<"-">>]
    ELSE IF st.char_class THEN [st EXCEPT !.chars = @ \o ReEscape(c)]
    ELSE [st EXCEPT !.regex = @ \o ReEscape(c)]

\* Mutant of PatternChar: inside a class '-' is escaped like any other
\* member (no branch for it), which makes it a literal.
PatternCharEscapesDash(st, c) ==
    IF st.escaped THEN [st EXCEPT !.escaped = FALSE, !.exc = ReEscapeList(c).exc]
    ELSE IF c = "\\" THEN [st EXCEPT !.escaped = TRUE]
    ELSE IF c = "*" THEN [st EXCEPT !.regex = @ \o <<"[", "^", ".", "]", "*">>]
    ELSE IF c = "?" THEN [st EXCEPT !.regex = @ \o <<"[", "^", ".", "]">>]
    ELSE IF c = "[" /\ ~st.char_class THEN
        [st EXCEPT !.char_class = TRUE, !.chars = <<>>]
    ELSE IF c = "^" /\ st.char_class /\ st.chars = <<>> THEN
        [st EXCEPT !.chars = @ \o <<"^">>]
    ELSE IF c = "]" /\ st.char_class /\ st.chars \notin {<<>>, <<"^">>} THEN
        [st EXCEPT !.char_class = FALSE,
                   !.regex = @ \o <<"[">> \o st.chars \o <<"]">>]
    ELSE IF st.char_class THEN [st EXCEPT !.chars = @ \o ReEscape(c)]
    ELSE [st EXCEPT !.regex = @ \o ReEscape(c)]

\* The loop body of Pattern.__init__ for the character c.
\* st = [escaped, char_class, chars, regex, exc]
PatternChar(st, c) ==
    IF st.escaped /\ st.char_class THEN
        [st EXCEPT !.escaped = FALSE, !.exc = ReEscapeList(c).exc]
    ELSE IF st.escaped THEN
        [st EXCEPT !.escaped = FALSE, !.exc = ReEscapeList(c).exc]
    ELSE IF c = "\\" THEN [st EXCEPT !.escaped = TRUE]
    ELSE IF c = "*" THEN [st EXCEPT !.regex = @ \o <<"[", "^", ".", "]", "*">>]
    ELSE IF c = "?" THEN [st EXCEPT !.regex = @ \o <<"[", "^", ".", "]">>]
    ELSE IF c = "[" /\ ~st.char_class THEN
        [st EXCEPT !.char_class = TRUE, !.chars = <<>>]
    ELSE IF c = "^" /\ st.char_class /\ st.chars = <<>> THEN
        [st EXCEPT !.chars = @ \o <<"^">>]
    ELSE IF c = "]" /\ st.char_class /\ st.chars \notin {<<>>, <<"^">>} THEN
        [st EXCEPT !.char_class = FALSE,
                   !.regex = @ \o <<"[">> \o st.chars \o <<"]">>]
    ELSE IF c = "-" /\ st.char_class THEN [st EXCEPT !.chars = @ \o <<"-">>]
    ELSE IF st.char_class THEN [st EXCEPT !.chars = @ \o ReEscape(c)]
    ELSE [st EXCEPT !.regex = @ \o ReEscape(c)]

RECURSIVE PatternLoop(_, _, _)
PatternLoop(p, i, st) ==
    IF i > Len(p) \/ st.exc # "" THEN st
    ELSE PatternLoop(p, i + 1, PatternChar(st, p[i]))

\* self.regex = re.compile('^' + regex + '$'), compiled being what
\* re.compile returned or raised.
PatternCompiled(p, compiled) ==
    IF compiled.exc # "" THEN [exc |-> compiled.exc, regex |-> <<>>, pattern |-> p]
    ELSE [exc |-> "", regex |-> compiled.items, pattern |-> p]

\* The end of Pattern.__init__, st being the state the loop leaves: an
\* open class or a trailing backslash raises ValueError.
PatternChecks(p, st) ==
    IF st.exc # "" THEN [exc |-> st.exc, regex |-> <<>>, pattern |-> p]
    ELSE IF st.char_class THEN [exc |-> "ValueError", regex |-> <<>>, pattern |-> p]
    ELSE IF st.escaped THEN [exc |-> "ValueError", regex |-> <<>>, pattern |-> p]
    ELSE PatternCompiled(p, ReCompile(<<"^">> \o st.regex \o <<"$">>))

\* Pattern(p): the constructed object, or the exception raised
\* (ValueError from the two checks, AttributeError from re.escape([c]),
\* error from re.compile).
PatternInit(p) ==
    PatternChecks(p, PatternLoop(p, 1, [escaped |-> FALSE, char_class |-> FALSE,
                                        chars |-> <<>>, regex |-> <<>>, exc |-> ""]))

\* Pattern.match(input), as a truth value.
PatternMatch(self, s) == ReMatch(self.regex, s)

(***************************************************************************)
(* class RuleList                                                          *)
(*                                                                         *)
(* A rule is the pair <<Pattern object, score>> (rule[0], rule[1] in the   *)
(* source).  A RuleList object is [type, rules, highest].  decode returns  *)
(* the tuple ([], 0) for unparseable input: that is the object of type     *)
(* "tuple", which has none of RuleList's methods.                          *)
(***************************************************************************)
RulePattern(rule) == rule[1]
RuleScore(rule)   == rule[2]

\* Mutant of HighestLoop: the loop assigns rule[1] + 1 without taking the max.
RECURSIVE HighestLoopNoMax(_, _, _)
HighestLoopNoMax(rules, i, highest) ==
    IF i > Len(rules) THEN highest
    ELSE HighestLoopNoMax(rules, i + 1, RuleScore(rules[i]) + 1)

\* The for loop of RuleList.__init__ from rule i on.
RECURSIVE HighestLoop(_, _, _)
HighestLoop(rules, i, highest) ==
    IF i > Len(rules) THEN highest
    ELSE HighestLoop(rules, i + 1, Max(highest, RuleScore(rules[i]) + 1))

\* RuleList(rules)
RuleListInit(rules) ==
    [type |-> "RuleList", rules |-> rules, highest |-> HighestLoop(rules, 1, 0)]

\* The tuple ([], 0) that decode returns when json.loads fails.
DecodeFailureTuple == [type |-> "tuple", rules |-> <<>>, highest |-> 0]

\* The for loop of get_score from rule i on.
RECURSIVE GetScoreLoop(_, _, _)
GetScoreLoop(self, name, i) ==
    IF i > Len(self.rules) THEN self.highest
    ELSE IF PatternMatch(RulePattern(self.rules[i]), name) THEN RuleScore(self.rules[i])
    ELSE GetScoreLoop(self, name, i + 1)

\* Mutant of GetScore: the lowest score among the matching rules, not the
\* first one.
GetScoreLowest(self, name) ==
    LET m == { i \in 1..Len(self.rules) : PatternMatch(RulePattern(self.rules[i]), name) }
    IN  IF m = {} THEN self.highest
        ELSE LET i == CHOOSE i \in m : \A j \in m : RuleScore(self.rules[i]) <= RuleScore(self.rules[j])
             IN  RuleScore(self.rules[i])

\* self.get_score(name, rules)
GetScore(self, name) == GetScoreLoop(self, name, 1)

\* len(self)
RuleListLen(self) == Len(self.rules)

\* A method result: the exception raised ("" for none), the object after
\* the call, and the value returned.
Result(exc, self, ret) == [exc |-> exc, self |-> self, ret |-> ret]

None == <<>>

\* list.insert(index, x) and list.pop(index) for 0 <= index <= len.
ListInsert(l, index, x) == SubSeq(l, 1, index) \o <<x>> \o SubSeq(l, index + 1, Len(l))
ListPop(l, index)       == SubSeq(l, 1, index) \o SubSeq(l, index + 2, Len(l))

\* self.append(rule)
RuleListAppend(self, rule) ==
    IF self.type # "RuleList" THEN Result("AttributeError", self, None)
    ELSE Result("", [self EXCEPT !.rules = Append(@, rule),
                                 !.highest = Max(@, RuleScore(rule) + 1)], None)

\* Mutant of RuleListInsert: the list is updated, __highest is not.
RuleListInsertKeepsHighest(self, index, rule) ==
    IF self.type # "RuleList" THEN Result("AttributeError", self, None)
    ELSE IF ~(0 <= index /\ index <= Len(self.rules)) THEN Result("ValueError", self, None)
    ELSE Result("", [self EXCEPT !.rules = ListInsert(@, index, rule)], None)

\* self.insert(index, rule)
RuleListInsert(self, index, rule) ==
    IF self.type # "RuleList" THEN Result("AttributeError", self, None)
    ELSE IF ~(0 <= index /\ index <= RuleListLen(self)) THEN Result("ValueError", self, None)
    ELSE Result("", [self EXCEPT !.rules = ListInsert(@, index, rule),
                                 !.highest = Max(@, RuleScore(rule) + 1)], None)

\* self.pop(index)
RuleListPop(self, index) ==
    IF self.type # "RuleList" THEN Result("AttributeError", self, None)
    ELSE IF ~(0 <= index /\ index < RuleListLen(self)) THEN Result("ValueError", self, None)
    ELSE Result("", [self EXCEPT !.rules = ListPop(@, index)], self.rules[index + 1])

\* Mutant of RuleListMove: the target index is lowered by one when the
\* rule comes from in front of it, as if it still counted the popped rule.
RuleListMoveAdjusted(self, index_a, index_b) ==
    LET popped == RuleListPop(self, index_a)
    IN  IF popped.exc # "" THEN popped
        ELSE RuleListInsert(popped.self,
                            IF index_a < index_b THEN index_b - 1 ELSE index_b,
                            popped.ret)

\* self.move(index_a, index_b): self.insert(index_b, self.pop(index_a))
RuleListMove(self, index_a, index_b) ==
    LET popped == RuleListPop(self, index_a)
    IN  IF popped.exc # "" THEN popped
        ELSE RuleListInsert(popped.self, index_b, popped.ret)

\* self[index]
RuleListGetItem(self, index) ==
    IF self.type # "RuleList" THEN Result("AttributeError", self, None)
    ELSE IF ~(0 <= index /\ index < RuleListLen(self)) THEN Result("ValueError", self, None)
    ELSE Result("", self, self.rules[index + 1])

\* self[index] = rule.  The last line assigns the undefined name `value':
\* NameError, after __highest has been updated.
RuleListSetItem(self, index, rule) ==
    IF self.type # "RuleList" THEN Result("TypeError", self, None)
    ELSE IF ~(0 <= index /\ index < RuleListLen(self)) THEN Result("ValueError", self, None)
    ELSE Result("NameError", [self EXCEPT !.highest = Max(@, RuleScore(rule) + 1)], None)

\* self.swap(index_a, index_b):
\* self[index_a], self[index_b] = self[index_b], self[index_a]
\* The right-hand side is evaluated first, left to right, then the targets
\* are assigned left to right.
RuleListSwap(self, index_a, index_b) ==
    LET get_b == RuleListGetItem(self, index_b)
        get_a == RuleListGetItem(self, index_a)
        set_a == RuleListSetItem(self, index_a, get_b.ret)
    IN  IF get_b.exc # "" THEN get_b
        ELSE IF get_a.exc # "" THEN get_a
        ELSE IF set_a.exc # "" THEN set_a
        ELSE RuleListSetItem(set_a.self, index_b, get_a.ret)

(***************************************************************************)
(* json, int() and RuleList.encode / RuleList.decode                       *)
(*                                                                         *)
(* A JSON value is [t, s, n, items] with t the kind: "str" (s its text),   *)
(* "int" (n), "float" (a number with a fractional part, n its integer      *)
(* part), "null", "list" (items).  A blob is the text of the configuration *)
(* option: [valid, value], the value json.loads parses it to, or not       *)
(* valid when json.loads raises.  json.dumps is the injection into valid   *)
(* blobs; it turns Python tuples into JSON lists.                          *)
(***************************************************************************)
JStr(s)      == [t |-> "str",   s |-> s,    n |-> 0, items |-> <<>>]
JInt(n)      == [t |-> "int",   s |-> <<>>, n |-> n, items |-> <<>>]
JFloat(n)    == [t |-> "float", s |-> <<>>, n |-> n, items |-> <<>>]
JNull        == [t |-> "null",  s |-> <<>>, n |-> 0, items |-> <<>>]
JList(items) == [t |-> "list",  s |-> <<>>, n |-> 0, items |-> items]

JsonDumps(value) == [valid |-> TRUE, value |-> value]
JsonLoads(blob)  == IF blob.valid THEN [exc |-> "", value |-> blob.value]
                    ELSE [exc |-> "ValueError", value |-> JNull]

\* The value of a string of decimal digits.
RECURSIVE DigitsValue(_, _)
DigitsValue(s, acc) ==
    IF s = <<>> THEN acc
    ELSE DigitsValue(Tail(s), 10 * acc + (Ord(s[1]) - Ord("0")))

\* int(s) for a string: an optional sign and at least one digit.
IntOfStr(s) ==
    LET signed == s # <<>> /\ s[1] \in {"+", "-"}
        digits == IF signed THEN Tail(s) ELSE s
    IN  IF digits = <<>> \/ \E i \in 1..Len(digits) : digits[i] \notin Digits
        THEN [exc |-> "ValueError", n |-> 0]
        ELSE [exc |-> "", n |-> IF signed /\ s[1] = "-" THEN 0 - DigitsValue(digits, 0)
                                ELSE DigitsValue(digits, 0)]

\* int(v) for a JSON value: a float is truncated, a string parsed.
IntOf(v) ==
    CASE v.t = "int"   -> [exc |-> "", n |-> v.n]
      [] v.t = "float" -> [exc |-> "", n |-> v.n]
      [] v.t = "str"   -> IntOfStr(v.s)
      [] OTHER         -> [exc |-> "TypeError", n |-> 0]

\* The map of encode: (x[0].pattern, x[1]) for each rule.
EncodeRule(rule) == JList(<<JStr(RulePattern(rule).pattern), JInt(RuleScore(rule))>>)

\* RuleList.encode(self)
RuleListEncode(self) ==
    IF self.type # "RuleList" THEN [exc |-> "TypeError", blob |-> JsonDumps(JNull)]
    ELSE [exc |-> "",
          blob |-> JsonDumps(JList([i \in 1..Len(self.rules) |-> EncodeRule(self.rules[i])]))]

\* rule[i] for a decoded entry that has a length: an item of a list, a
\* character of a string.
EntryItem(rule, i) == IF rule.t = "list" THEN rule.items[i + 1] ELSE JStr(<<rule.s[i + 1]>>)

\* One iteration of the loop of decode: [exc, keep, rule].  exc is an
\* exception that leaves decode; keep says whether result.append ran.
\* The items of an entry are strings, numbers or null.
\* The body of the loop of decode for an entry of two items: the entry is
\* skipped when Pattern(rule[0]) or int(rule[1]) raised.
DecodeRule(p, score) ==
    IF p.exc # "" \/ score.exc # "" THEN [exc |-> "", keep |-> FALSE, rule |-> None]
    ELSE [exc |-> "", keep |-> TRUE, rule |-> <<p, score.n>>]

DecodeEntry(rule) ==
    LET skip       == [exc |-> "", keep |-> FALSE, rule |-> None]
        raise(e)   == [exc |-> e, keep |-> FALSE, rule |-> None]
    IN  IF rule.t \notin {"list", "str"} THEN raise("TypeError")      \* len(rule)
        ELSE IF (IF rule.t = "list" THEN Len(rule.items) ELSE Len(rule.s)) # 2 THEN skip
        ELSE IF EntryItem(rule, 0).t # "str"
             \* Pattern(rule[0]) raises TypeError, which is caught; the log
             \* line then adds rule[0] to a string and raises TypeError.
             THEN raise("TypeError")
        ELSE DecodeRule(PatternInit(EntryItem(rule, 0).s), IntOf(EntryItem(rule, 1)))

\* The entries a for loop over the decoded value visits: the items of a
\* list, the characters of a string.
IterOf(decoded) ==
    CASE decoded.t = "list" -> [exc |-> "", seq |-> decoded.items]
      [] decoded.t = "str"  -> [exc |-> "", seq |-> [i \in 1..Len(decoded.s) |-> JStr(<<decoded.s[i]>>)]]
      [] OTHER              -> [exc |-> "TypeError", seq |-> <<>>]

RECURSIVE DecodeLoop(_, _, _)

\* Mutant of DecodeStep: each kept rule is put in front of the result.
DecodeStepPrepend(entries, i, result, e) ==
    IF e.exc # "" THEN [exc |-> e.exc, result |-> result]
    ELSE DecodeLoop(entries, i + 1, IF e.keep THEN <<e.rule>> \o result ELSE result)

\* One round of the loop of decode, e being what the body made of entry i.
DecodeStep(entries, i, result, e) ==
    IF e.exc # "" THEN [exc |-> e.exc, result |-> result]
    ELSE DecodeLoop(entries, i + 1, IF e.keep THEN Append(result, e.rule) ELSE result)

\* The loop of decode over the entries, from entry i on.
DecodeLoop(entries, i, result) ==
    IF i > Len(entries) THEN [exc |-> "", result |-> result]
    ELSE DecodeStep(entries, i, result, DecodeEntry(entries[i]))

\* The return of decode: RuleList(result), unless the loop raised.
DecodeReturn(loop) ==
    IF loop.exc # "" THEN [exc |-> loop.exc, obj |-> None]
    ELSE [exc |-> "", obj |-> RuleListInit(loop.result)]

\* RuleList.decode(blob): [exc, obj]
RuleListDecode(blob) ==
    LET loaded == JsonLoads(blob)
        iter   == IterOf(loaded.value)
    IN  IF loaded.exc # "" THEN [exc |-> "", obj |-> DecodeFailureTuple]
        ELSE IF iter.exc # "" THEN [exc |-> iter.exc, obj |-> None]
        ELSE DecodeReturn(DecodeLoop(iter.seq, 1, <<>>))

(***************************************************************************)
(* Bounds and the bounded input sets.                                      *)
(***************************************************************************)
MaxRules == 3       \* longest rule list the RuleList specification grows

SeqsUpTo(S, n) == UNION { [1..k -> S] : k \in 0..n }

\* Rules to build tables from: Pattern(text) succeeds for each.
MkRule(text, score) == <<PatternInit(text), score>>

RuleSet ==
    { MkRule(<<"a">>, 3), MkRule(<<"*">>, 0), MkRule(<<"*">>, -2) }

\* Index arguments: in range, at the end, and out of range on both sides.
IndexArgs == (0 - 1)..(MaxRules + 1)

\* Names to score.
ScoreNames == { <<"a">>, <<"b">>, <<"a", ".", "b">> }

(***************************************************************************)
(* SpecList: the RuleList class, driven through its methods.               *)
(***************************************************************************)
unusedList == <<option_rules, case_sensitive, group_irc, host, ncalls,
                pattern, input, obj, matched>>

InitUnusedList ==
    /\ option_rules = JsonDumps(JList(<<>>))
    /\ case_sensitive = FALSE
    /\ group_irc = TRUE
    /\ host = <<>>
    /\ ncalls = 0
    /\ pattern = <<>>
    /\ input = <<>>
    /\ obj = None
    /\ matched = FALSE

Call(name, args, r) == [name |-> name, args |-> args, exc |-> r.exc, ret |-> r.ret]

InitList ==
    /\ \E rs \in SeqsUpTo(RuleSet, MaxRules) : rulelist = RuleListInit(rs)
    /\ call = [name |-> "__init__", args |-> <<>>, exc |-> "", ret |-> None]
    /\ pre = rulelist
    /\ InitUnusedList

\* Apply a method result r of the call (name, args).
Method(name, args, r) ==
    /\ rulelist' = r.self
    /\ call' = Call(name, args, r)
    /\ pre' = rulelist
    /\ UNCHANGED unusedList

ListAppend ==
    \E rule \in RuleSet :
        /\ Len(rulelist.rules) < MaxRules
        /\ Method("append", <<rule>>, RuleListAppend(rulelist, rule))

ListInsert_ ==
    \E index \in IndexArgs, rule \in RuleSet :
        /\ Len(rulelist.rules) < MaxRules
        /\ Method("insert", <<index, rule>>, RuleListInsert(rulelist, index, rule))

ListSetItem ==
    \E index \in IndexArgs, rule \in RuleSet :
        Method("__setitem__", <<index, rule>>, RuleListSetItem(rulelist, index, rule))

ListPop_ ==
    \E index \in IndexArgs :
        Method("pop", <<index>>, RuleListPop(rulelist, index))

ListMove ==
    \E index_a \in IndexArgs, index_b \in IndexArgs :
        Method("move", <<index_a, index_b>>, RuleListMove(rulelist, index_a, index_b))

ListSwap ==
    \E index_a \in IndexArgs, index_b \in IndexArgs :
        Method("swap", <<index_a, index_b>>, RuleListSwap(rulelist, index_a, index_b))

ListGetScore ==
    \E name \in ScoreNames :
        Method("get_score", <<name>>, Result("", rulelist, GetScore(rulelist, name)))

\* RuleList.decode(self.encode()): what save_rules and reload do to a table.
ListEncodeDecode ==
    \E encoded \in { RuleListEncode(rulelist) } :
    \E decoded \in { RuleListDecode(encoded.blob) } :
        /\ encoded.exc = ""
        /\ Method("decode", <<encoded.blob>>,
                  IF decoded.exc # "" THEN Result(decoded.exc, rulelist, None)
                  ELSE Result("", decoded.obj, None))

NextList ==
    \/ ListAppend
    \/ ListInsert_
    \/ ListSetItem
    \/ ListPop_
    \/ ListMove
    \/ ListSwap
    \/ ListGetScore
    \/ ListEncodeDecode

SpecList == InitList /\ [][NextList]_vars

(***************************************************************************)
(* Properties of RuleList, checked under SpecList.                         *)
(***************************************************************************)
Scores(rules) == { RuleScore(rules[i]) : i \in 1..Len(rules) }

MaxScore(rules) == CHOOSE m \in Scores(rules) : \A x \in Scores(rules) : x <= m

\* The ordered (pattern text, score) pairs of a rule sequence.
Pairs(rules) == [ i \in 1..Len(rules) |-> <<RulePattern(rules[i]).pattern, RuleScore(rules[i])>> ]

\* C1: after any sequence of append, insert, __setitem__, pop, move and
\* swap calls, failed ones included, __highest (defaultScore) is strictly
\* greater than the score of every rule in the table.
C1_HighestAboveEveryScore ==
    \A i \in 1..Len(rulelist.rules) : rulelist.highest > RuleScore(rulelist.rules[i])

\* C1 witness: a failed move has left a table that holds a rule with a
\* negative score next to one with a positive score.
C1_Witness ==
    /\ call.name = "move" /\ call.exc = "ValueError"
    /\ \E i \in 1..Len(rulelist.rules) : RuleScore(rulelist.rules[i]) < 0
    /\ \E i \in 1..Len(rulelist.rules) : RuleScore(rulelist.rules[i]) > 0

\* Whether the last call had an index argument outside its valid range:
\* [0, length] for insert, [0, length) for pop, move and swap.
OutOfRangeCall ==
    LET n == Len(pre.rules)
        outside(i, hi) == i < 0 \/ i > hi
    IN  \/ call.name = "insert" /\ outside(call.args[1], n)
        \/ call.name = "pop" /\ outside(call.args[1], n - 1)
        \/ /\ call.name \in {"move", "swap"}
           /\ outside(call.args[1], n - 1) \/ outside(call.args[2], n - 1)

\* C2: an insert, pop, move or swap with an index argument out of range
\* fails and leaves the rule sequence as it was.
C2_OutOfRangeLeavesRules ==
    OutOfRangeCall => call.exc # "" /\ rulelist.rules = pre.rules

\* C3: get_score returns the score of the lowest-index matching rule,
\* returns __highest exactly when no rule matches, and changes nothing.
C3_GetScoreIsFirstMatch ==
    call.name = "get_score" =>
        LET name == call.args[1]
            m    == { i \in 1..Len(pre.rules) : PatternMatch(RulePattern(pre.rules[i]), name) }
            first == CHOOSE i \in m : \A j \in m : i <= j
        IN  /\ call.exc = ""
            /\ rulelist = pre
            /\ m # {} => call.ret = RuleScore(pre.rules[first])
            /\ (call.ret = pre.highest) <=> (m = {})

\* C3 witness: a name was scored that two rules match, the later one with
\* the lower score.
C3_Witness ==
    /\ call.name = "get_score"
    /\ \E i, j \in 1..Len(pre.rules) :
          /\ i < j
          /\ PatternMatch(RulePattern(pre.rules[i]), call.args[1])
          /\ PatternMatch(RulePattern(pre.rules[j]), call.args[1])
          /\ RuleScore(pre.rules[j]) < RuleScore(pre.rules[i])
          /\ call.ret = RuleScore(pre.rules[i])

\* C4: decode(encode(t)) is a table with the same ordered
\* (pattern text, score) pairs as t.
C4_DecodeEncodeRoundTrip ==
    call.name = "decode" =>
        /\ call.exc = ""
        /\ rulelist.type = "RuleList"
        /\ Pairs(rulelist.rules) = Pairs(pre.rules)

\* C4 witness: a table of at least two different rules, one with a negative
\* score, went through encode and decode.
C4_Witness ==
    /\ call.name = "decode" /\ call.exc = ""
    /\ Len(pre.rules) >= 2
    /\ pre.rules[1] # pre.rules[2]
    /\ \E i \in 1..Len(pre.rules) : RuleScore(pre.rules[i]) < 0

\* Whether the table in rulelist has just been constructed.
Fresh == call.name \in {"__init__", "decode"} /\ call.exc = "" /\ rulelist.type = "RuleList"

\* C7 as stated: a freshly constructed table has __highest equal to
\* 1 + the maximum score, 0 when empty, also when every score is negative.
C7_FreshHighestIsOnePlusMax ==
    Fresh => rulelist.highest = IF rulelist.rules = <<>> THEN 0
                                ELSE 1 + MaxScore(rulelist.rules)

\* C7 amended: a freshly constructed table has __highest equal to
\* 1 + the maximum score when some score is >= 0, and 0 otherwise (the
\* table is empty or every score is negative).
C7_FreshHighestIsOnePlusMaxOrZero ==
    Fresh => rulelist.highest =
                 IF \E i \in 1..Len(rulelist.rules) : RuleScore(rulelist.rules[i]) >= 0
                 THEN 1 + MaxScore(rulelist.rules)
                 ELSE 0

\* C7 witness: a table constructed from rules whose scores are all negative.
C7_Witness ==
    /\ Fresh
    /\ rulelist.rules # <<>>
    /\ \A i \in 1..Len(rulelist.rules) : RuleScore(rulelist.rules[i]) < 0
    /\ rulelist.highest = 0

\* Whether i is an index of the table the last call was made on.
InRange(i) == 0 <= i /\ i < Len(pre.rules)

\* C14: self[index] = rule with index in [0, length) succeeds, puts the
\* rule at that index, leaves every other position and the length as they
\* were, and makes __highest max(__highest, score + 1).
C14_ReplaceSetsRule ==
    (call.name = "__setitem__" /\ InRange(call.args[1])) =>
        /\ call.exc = ""
        /\ rulelist.rules = [pre.rules EXCEPT ![call.args[1] + 1] = call.args[2]]
        /\ rulelist.highest = Max(pre.highest, RuleScore(call.args[2]) + 1)

\* C15: swap(index_a, index_b) with both indices in [0, length) succeeds
\* and exchanges the rules at the two indices, leaving every other
\* position and the length as they were.
C15_SwapExchanges ==
    (call.name = "swap" /\ InRange(call.args[1]) /\ InRange(call.args[2])) =>
        /\ call.exc = ""
        /\ rulelist.rules = [pre.rules EXCEPT ![call.args[1] + 1] = pre.rules[call.args[2] + 1],
                                              ![call.args[2] + 1] = pre.rules[call.args[1] + 1]]

\* C16: move(index_a, index_b) with both indices in [0, length) succeeds;
\* the rule that was at index_a is at index_b, the other rules keep their
\* relative order, and the length and the rules held are unchanged.
C16_MoveRelocates ==
    (call.name = "move" /\ InRange(call.args[1]) /\ InRange(call.args[2])) =>
        /\ call.exc = ""
        /\ Len(rulelist.rules) = Len(pre.rules)
        /\ rulelist.rules[call.args[2] + 1] = pre.rules[call.args[1] + 1]
        /\ ListPop(rulelist.rules, call.args[2]) = ListPop(pre.rules, call.args[1])
        /\ rulelist.highest = pre.highest

\* C16 witness: in a table of three different rules the first one was
\* moved to the end.
C16_Witness ==
    /\ call.name = "move" /\ call.exc = ""
    /\ call.args = <<0, 2>>
    /\ Len(pre.rules) = 3
    /\ Cardinality({ pre.rules[i] : i \in 1..3 }) = 3
    /\ rulelist.rules = <<pre.rules[2], pre.rules[3], pre.rules[1]>>

(***************************************************************************)
(* SpecPattern: Pattern(pattern) and then match(input), for a pattern and  *)
(* an input drawn from bounded sets.                                       *)
(***************************************************************************)
MaxPatternLen == 3  \* longest enumerated pattern text
MaxInputLen == 2    \* longest enumerated match input

PatternChars == { "a", "*", "?", "[", "]", "-" }
InputChars   == { "a", "b", "-", "." }

\* Pattern texts: every short text over PatternChars, and some longer ones.
PatternArgs ==
    SeqsUpTo(PatternChars, MaxPatternLen) \cup
    { <<"[", "a", "-", "z", "]">>, <<"[", "^", "a", "-", "z", "]">>,
      <<"[", "z", "-", "a", "]">>, <<"[", "a", "z", "-", "]">>,
      <<"\\", "*">>, <<"[", "\\", "]", "]">>, <<"a", "\\">>,
      <<"a", ".", "*">>, <<"[", "^", "a", "]">> }

MatchInputs ==
    SeqsUpTo(InputChars, MaxInputLen) \cup
    { <<"z">>, <<"*">>, <<"C">>, <<"^">>, <<"a", ".", "b">>, <<"a", "b", "a">> }

unusedPattern == <<rulelist, option_rules, case_sensitive, group_irc, host, pre, ncalls>>

InitPattern ==
    /\ pattern \in PatternArgs
    /\ input \in MatchInputs
    /\ obj = None
    /\ matched = FALSE
    /\ call = [name |-> "none", exc |-> ""]
    /\ rulelist = RuleListInit(<<>>)
    /\ pre = rulelist
    /\ option_rules = JsonDumps(JList(<<>>))
    /\ case_sensitive = FALSE
    /\ group_irc = TRUE
    /\ host = <<>>
    /\ ncalls = 0

\* obj = Pattern(pattern)
PatternConstruct ==
    /\ call.name = "none"
    /\ obj' = PatternInit(pattern)
    /\ call' = [name |-> "Pattern", exc |-> obj'.exc]
    /\ UNCHANGED <<pattern, input, matched>>
    /\ UNCHANGED unusedPattern

\* matched = bool(obj.match(input)), for an object that was constructed
PatternMatchCall ==
    /\ call.name = "Pattern"
    /\ call.exc = ""
    /\ matched' = PatternMatch(obj, input)
    /\ call' = [name |-> "match", exc |-> ""]
    /\ UNCHANGED <<pattern, input, obj>>
    /\ UNCHANGED unusedPattern

NextPattern ==
    \/ PatternConstruct
    \/ PatternMatchCall

SpecPattern == InitPattern /\ [][NextPattern]_vars

\* C6 as stated: inside a class '-' is a literal member: [a-z] matches
\* exactly the strings "a", "-" and "z".
C6_DashIsLiteralInClass ==
    (call.name = "match" /\ pattern = <<"[", "a", "-", "z", "]">>) =>
        (matched <=> input \in { <<"a">>, <<"-">>, <<"z">> })

\* C6 amended: inside a class '-' between two members denotes the range
\* between them: [a-z] matches exactly the one-character strings whose
\* character lies between 'a' and 'z', so "b" matches and "-" does not.
C6_DashIsRangeInClass ==
    (call.name = "match" /\ pattern = <<"[", "a", "-", "z", "]">>) =>
        (matched <=> /\ Len(input) = 1
                     /\ Ord("a") <= Ord(input[1])
                     /\ Ord(input[1]) <= Ord("z"))

\* C6 witness: [a-z] was matched against "b", and matched it.
C6_Witness ==
    /\ call.name = "match"
    /\ pattern = <<"[", "a", "-", "z", "]">>
    /\ input = <<"b">>
    /\ matched

\* Whether the pattern text holds a backslash, itself not escaped, with a
\* character after it.
EscapesCharacter(p) ==
    \E i \in 1..(Len(p) - 1) : p[i] = "\\" /\ (i = 1 \/ p[i - 1] # "\\")

\* C12: a pattern in which a backslash is followed by a character compiles,
\* outside and inside a class, and the character is matched as a literal:
\* \* matches the component * and nothing else.
C12_EscapedCharIsLiteral ==
    /\ (call.name \in {"Pattern", "match"} /\ EscapesCharacter(pattern)) => obj.exc = ""
    /\ (call.name = "match" /\ pattern = <<"\\", "*">>) => (matched <=> input = <<"*">>)

\* Whether the pattern text consists of '*', '?' and literal characters
\* other than the separator only.
GlobOnly(p) == \A i \in 1..Len(p) : p[i] \in {"*", "?", "a", "-"}

\* C13: a pattern of '*', '?' and literal non-separator characters matches
\* no string that contains the separator '.': neither '*' nor '?' matches
\* a '.'.
C13_WildcardsStopAtSeparator ==
    (call.name = "match" /\ GlobOnly(pattern) /\ matched) =>
        \A i \in 1..Len(input) : input[i] # "."

\* C13 witness: a pattern with a '*' and a '?' matched a two-character
\* component, and one with a '*' was matched against a string with a '.'
\* in it without matching.
C13_Witness ==
    /\ call.name = "match"
    /\ \/ pattern = <<"*", "?">> /\ input = <<"a", "b">> /\ matched
       \/ pattern = <<"a", "*">> /\ input = <<"a", ".">> /\ ~matched

(***************************************************************************)
(* SpecDecode: Config.reload decoding the rules option, for a blob drawn   *)
(* from a bounded set.                                                     *)
(***************************************************************************)
MaxEntries == 3     \* most entries in an enumerated blob

JText(s, n) == JList(<<JStr(s), n>>)

\* Entries in the wire format: [pattern text, integer score].
GoodEntries ==
    { JText(<<"a">>, JInt(3)), JText(<<"*">>, JInt(0 - 2)) }

\* Entries that are not: wrong arity, invalid pattern, score not an
\* integer, pattern not a string, entry not a list.
BadEntries ==
    { JList(<<JStr(<<"a">>)>>),
      JList(<<JStr(<<"a">>), JInt(3), JInt(0)>>),
      JText(<<"[", "a">>, JInt(1)),
      JText(<<"a", "\\">>, JInt(1)),
      JText(<<"b">>, JStr(<<"x">>)),
      JText(<<"b">>, JStr(<<"7">>)),
      JText(<<"b">>, JNull),
      JText(<<"b">>, JFloat(1)),
      JList(<<JInt(5), JInt(1)>>),
      JInt(5),
      JStr(<<"b", "1">>) }

Blobs ==
    { JsonDumps(JList(items)) : items \in SeqsUpTo(GoodEntries \cup BadEntries, MaxEntries) }
    \cup { [valid |-> FALSE, value |-> JNull], JsonDumps(JInt(5)), JsonDumps(JNull),
           JsonDumps(JStr(<<"a", "b">>)) }

unusedDecode == <<case_sensitive, group_irc, host, ncalls, pattern, input, obj, matched>>

\* Config.__init__ up to the call of reload: self.rules = [].
InitDecode ==
    /\ option_rules \in Blobs
    /\ rulelist = [type |-> "list", rules |-> <<>>, highest |-> 0]
    /\ call = [name |-> "none", exc |-> ""]
    /\ pre = rulelist
    /\ case_sensitive = FALSE
    /\ group_irc = TRUE
    /\ host = <<>>
    /\ ncalls = 0
    /\ pattern = <<>>
    /\ input = <<>>
    /\ obj = None
    /\ matched = FALSE

\* Config.reload: self.rules = RuleList.decode(rules_blob).  An exception
\* leaves self.rules as it was.
ConfigReload ==
    \E decoded \in { RuleListDecode(option_rules) } :
        /\ call.name = "none"
        /\ rulelist' = IF decoded.exc = "" THEN decoded.obj ELSE rulelist
        /\ call' = [name |-> "reload", exc |-> decoded.exc]
        /\ pre' = rulelist
        /\ UNCHANGED option_rules
        /\ UNCHANGED unusedDecode

NextDecode == ConfigReload

SpecDecode == InitDecode /\ [][NextDecode]_vars

\* The wire format of an entry: a list of a pattern text that compiles
\* under the glob grammar (no unclosed class, no trailing backslash) and an
\* integer.  The texts of the enumerated entries use no escapes.
WellFormedEntry(e) ==
    /\ e.t = "list"
    /\ Len(e.items) = 2
    /\ e.items[1].t = "str"
    /\ PatternInit(e.items[1].s).exc = ""
    /\ e.items[2].t = "int"

RECURSIVE WellFormedPairs(_)
WellFormedPairs(entries) ==
    IF entries = <<>> THEN <<>>
    ELSE (IF WellFormedEntry(entries[1])
          THEN << <<entries[1].items[1].s, entries[1].items[2].n>> >>
          ELSE <<>>) \o WellFormedPairs(Tail(entries))

\* C5: decoding a list of entries, each a list, with one malformed entry
\* (wrong arity, invalid pattern, or a score that is not an integer) among
\* well-formed ones does not fail and yields exactly the well-formed
\* entries, in order.
C5_OneMalformedEntryDropped ==
    LET v == option_rules.value
    IN  ( /\ call.name = "reload"
          /\ option_rules.valid
          /\ v.t = "list"
          /\ \A i \in 1..Len(v.items) : v.items[i].t = "list"
          /\ Cardinality({ i \in 1..Len(v.items) : ~WellFormedEntry(v.items[i]) }) = 1
          /\ Len(v.items) >= 2 )
        => /\ call.exc = ""
           /\ rulelist.type = "RuleList"
           /\ Pairs(rulelist.rules) = WellFormedPairs(v.items)

\* C11: after decoding a blob that json.loads rejects, config.rules is an
\* empty rule table: a RuleList of length 0 whose get_score returns 0 for
\* every name.
C11_InvalidBlobGivesEmptyTable ==
    (call.name = "reload" /\ ~option_rules.valid)
    => /\ call.exc = ""
       /\ rulelist.type = "RuleList"
       /\ RuleListLen(rulelist) = 0
       /\ \A name \in ScoreNames : GetScore(rulelist, name) = 0

(***************************************************************************)
(* Buffer names, sort keys and sorting.                                    *)
(***************************************************************************)

\* name.split('.') from position i on; cur is the component being read.
RECURSIVE SplitLoop(_, _, _, _)
SplitLoop(name, i, cur, acc) ==
    IF i > Len(name) THEN Append(acc, cur)
    ELSE IF name[i] = "." THEN SplitLoop(name, i + 1, <<>>, Append(acc, cur))
    ELSE SplitLoop(name, i + 1, Append(cur, name[i]), acc)

Split(name) == SplitLoop(name, 1, <<>>, <<>>)

\* '.'.join(buffer)
RECURSIVE Join(_)
Join(buffer) ==
    IF buffer = <<>> THEN <<>>
    ELSE IF Len(buffer) = 1 THEN buffer[1]
    ELSE buffer[1] \o <<".">> \o Join(Tail(buffer))

\* get_buffers(): the components of each buffer's full name, in buffer
\* order.  No two buffers of the modelled host are merged, so buffer i has
\* number i and none is skipped.
GetBuffers(h) == [ i \in 1..Len(h) |-> Split(h[i]) ]

WordIrc    == <<"i", "r", "c">>
WordServer == <<"s", "e", "r", "v", "e", "r">>
WordIrcRaw == <<"i", "r", "c", "_", "r", "a", "w">>

\* Mutant of Preprocess: the names are lower-cased before the test for
\* 'irc', so that IRC.x is grouped too.
PreprocessLowersFirst(buffer, group, sensitive) ==
    LET lowered == IF sensitive THEN buffer ELSE [ i \in 1..Len(buffer) |-> Lower(buffer[i]) ]
    IN  IF group /\ Len(lowered) >= 2 /\ lowered[1] = WordIrc
                 /\ lowered[2] \notin {WordServer, WordIrcRaw}
        THEN ListInsert(lowered, 1, WordServer)
        ELSE lowered

\* preprocess(buffer, config)
Preprocess(buffer, group, sensitive) ==
    LET result == IF group /\ Len(buffer) >= 2 /\ buffer[1] = WordIrc
                           /\ buffer[2] \notin {WordServer, WordIrcRaw}
                  THEN ListInsert(buffer, 1, WordServer)
                  ELSE buffer
    IN  IF ~sensitive THEN [ i \in 1..Len(result) |-> Lower(result[i]) ]
        ELSE result

\* The loop of key(buffer) from word i on: name is the prefix so far.
RECURSIVE KeyLoop(_, _, _, _, _)
KeyLoop(rules, words, i, name, result) ==
    IF i > Len(words) THEN result
    ELSE LET next == name \o (IF name # <<>> THEN <<".">> ELSE <<>>) \o words[i]
         IN  KeyLoop(rules, words, i + 1, next,
                     Append(result, <<GetScore(rules, next), words[i]>>))

\* buffer_sort_key(rules)(buffer), with the options of the global config
BufferSortKey(rules, buffer, group, sensitive) ==
    KeyLoop(rules, Preprocess(buffer, group, sensitive), 1, <<>>, <<>>)

\* Python's < on two (score, word) tuples.
PairLess(a, b) == a[1] < b[1] \/ (a[1] = b[1] /\ StrLess(a[2], b[2]))

\* Mutant of KeyLess: pairs are compared on the word alone.
RECURSIVE KeyLessByWord(_, _)
KeyLessByWord(a, b) ==
    IF a = <<>> THEN b # <<>>
    ELSE IF b = <<>> THEN FALSE
    ELSE IF a[1][2] # b[1][2] THEN StrLess(a[1][2], b[1][2])
    ELSE KeyLessByWord(Tail(a), Tail(b))

\* Python's < on two lists of tuples.
RECURSIVE KeyLess(_, _)
KeyLess(a, b) ==
    IF a = <<>> THEN b # <<>>
    ELSE IF b = <<>> THEN FALSE
    ELSE IF a[1] # b[1] THEN PairLess(a[1], b[1])
    ELSE KeyLess(Tail(a), Tail(b))

\* list.sort(key=...) is stable: entry x, taken in input order, goes in
\* front of the first entry whose key is greater.  Entries are <<key, value>>.
RECURSIVE SortInsert(_, _)
SortInsert(sorted, x) ==
    IF sorted = <<>> THEN <<x>>
    ELSE IF KeyLess(x[1], sorted[1][1]) THEN <<x>> \o sorted
    ELSE <<sorted[1]>> \o SortInsert(Tail(sorted), x)

RECURSIVE SortLoop(_, _, _)
SortLoop(entries, i, sorted) ==
    IF i > Len(entries) THEN sorted
    ELSE SortLoop(entries, i + 1, SortInsert(sorted, entries[i]))

\* The position of the buffer called name, and the list with the buffers
\* at positions i and j exchanged: "/buffer swap <name> <i>".
PositionOf(h, name) == CHOOSE i \in 1..Len(h) : h[i] = name /\ \A j \in 1..(i - 1) : h[j] # name

BufferSwap(h, name, i) ==
    IF ~(\E k \in 1..Len(h) : h[k] = name) \/ i > Len(h) THEN h
    ELSE LET k == PositionOf(h, name)
         IN  [h EXCEPT ![k] = h[i], ![i] = h[k]]

\* Mutant of ApplyBufferOrder: i is not incremented, every buffer is
\* swapped with the same position.
RECURSIVE ApplyBufferOrderNoIncrement(_, _, _)
ApplyBufferOrderNoIncrement(buffers, i, h) ==
    IF buffers = <<>> THEN h
    ELSE ApplyBufferOrderNoIncrement(Tail(buffers), i, BufferSwap(h, Join(buffers[1]), i))

\* apply_buffer_order(buffers) from entry i on
RECURSIVE ApplyBufferOrder(_, _, _)
ApplyBufferOrder(buffers, i, h) ==
    IF i > Len(buffers) THEN h
    ELSE ApplyBufferOrder(buffers, i + 1, BufferSwap(h, Join(buffers[i]), i))

\* on_buffers_changed(): [exc, buffers, keys, sorted, host].  The key
\* function calls rules.get_score, which only a RuleList has.
OnBuffersChanged(rules, h, group, sensitive) ==
    LET buffers == GetBuffers(h)
        keys    == [ i \in 1..Len(buffers) |-> BufferSortKey(rules, buffers[i], group, sensitive) ]
        sorted  == SortLoop([ i \in 1..Len(buffers) |-> <<keys[i], buffers[i]>> ], 1, <<>>)
        order   == [ i \in 1..Len(sorted) |-> sorted[i][2] ]
    IN  IF rules.type # "RuleList" /\ buffers # <<>>
        THEN [exc |-> "AttributeError", buffers |-> buffers, keys |-> <<>>,
              sorted |-> buffers, host |-> h]
        ELSE [exc |-> "", buffers |-> buffers, keys |-> keys, sorted |-> order,
              host |-> ApplyBufferOrder(order, 1, h)]

(***************************************************************************)
(* SpecSort: the sort callbacks, for a buffer list, options and stored     *)
(* rules drawn from bounded sets.                                          *)
(***************************************************************************)
MaxBuffers == 3     \* most buffers in the host's list

\* Config.default_rules
DefaultRules ==
    JsonDumps(JList(<<
        JText(<<"c", "o", "r", "e">>, JInt(0)),
        JText(WordIrc, JInt(2)),
        JText(<<"*">>, JInt(1)),
        JText(WordIrc \o <<".">> \o WordServer, JInt(1)),
        JText(WordIrc \o <<".">> \o WordIrcRaw, JInt(0)) >>))

\* Another stored rule list, with a negative score.
OtherRules ==
    JsonDumps(JList(<<
        JText(<<"i", "r", "c", ".", "s", "e", "r", "v", "e", "r", ".", "*", ".", "x", "*">>, JInt(1)),
        JText(<<"i", "r", "c", ".", "*", ".", "*">>, JInt(0)),
        JText(<<"*">>, JInt(0 - 1)) >>))

StoredRules == { DefaultRules, OtherRules }

NameCore    == <<"c", "o", "r", "e">>
NameWeechat == <<"w", "e", "e", "c", "h", "a", "t">>

\* Full names of buffers.  The first component of a full name is the name
\* of the plugin that owns the buffer, which is never empty.
BufferNames ==
    { NameCore,
      NameWeechat,
      <<"i", "r", "c", ".", "s", "e", "r", "v", "e", "r", ".", "n">>,
      <<"i", "r", "c", ".", "n", ".", "x">>,
      <<"i", "r", "c", ".", "i", "r", "c", "_", "r", "a", "w">>,
      <<"I", "R", "C", ".", "n", ".", "x">> }

DistinctSeqs(S, n) ==
    { q \in SeqsUpTo(S, n) : \A i, j \in 1..Len(q) : i # j => q[i] # q[j] }

unusedSort == <<pre, ncalls, pattern, input, obj, matched>>

InitSort ==
    /\ option_rules \in StoredRules
    /\ rulelist = RuleListDecode(option_rules).obj
    /\ case_sensitive \in BOOLEAN
    /\ group_irc \in BOOLEAN
    /\ host \in DistinctSeqs(BufferNames, MaxBuffers)
    /\ call = [name |-> "none", exc |-> ""]
    /\ pre = rulelist
    /\ ncalls = 0
    /\ pattern = <<>>
    /\ input = <<>>
    /\ obj = None
    /\ matched = FALSE

SortCall(name, r) ==
    [name |-> name, exc |-> r.exc, buffers |-> r.buffers, keys |-> r.keys, sorted |-> r.sorted]

\* One of the hooked buffer signals arrives: on_buffers_changed().
SignalBuffersChanged ==
    \E r \in { OnBuffersChanged(rulelist, host, group_irc, case_sensitive) } :
        /\ host' = r.host
        /\ call' = SortCall("on_buffers_changed", r)
        /\ UNCHANGED <<rulelist, option_rules, case_sensitive, group_irc>>
        /\ UNCHANGED unusedSort

\* The user sets one of the two boolean options: on_config_changed(),
\* which reloads the configuration and sorts.
OptionSet ==
    \E sensitive \in BOOLEAN, group \in BOOLEAN :
        \E decoded \in { RuleListDecode(option_rules) } :
        \E r \in { OnBuffersChanged(decoded.obj, host, group, sensitive) } :
            /\ (sensitive = case_sensitive) # (group = group_irc)
            /\ decoded.exc = ""
            /\ case_sensitive' = sensitive
            /\ group_irc' = group
            /\ rulelist' = decoded.obj
            /\ host' = r.host
            /\ call' = SortCall("on_config_changed", r)
            /\ UNCHANGED option_rules
            /\ UNCHANGED unusedSort

NextSort ==
    \/ SignalBuffersChanged
    \/ OptionSet

SpecSort == InitSort /\ [][NextSort]_vars

\* The key the specification gives a buffer: one (score, component) pair
\* per component of the transformed sequence, the score that of the
\* dot-joined prefix ending at the component.
GroupedBuffer(buffer) ==
    Len(buffer) >= 2 /\ buffer[1] = WordIrc /\ buffer[2] \notin {WordServer, WordIrcRaw}

Transformed(buffer) ==
    LET grouped == IF group_irc /\ GroupedBuffer(buffer)
                   THEN <<buffer[1], WordServer>> \o Tail(buffer)
                   ELSE buffer
    IN  IF case_sensitive THEN grouped
        ELSE [ i \in 1..Len(grouped) |-> Lower(grouped[i]) ]

ExpectedKey(buffer) ==
    LET t == Transformed(buffer)
    IN  [ i \in 1..Len(t) |-> <<GetScore(rulelist, Join(SubSeq(t, 1, i))), t[i]>> ]

\* a sorts strictly before b: at the first position where they differ, a
\* has ended or has the lower score or, scores equal, the lower component.
KeyBefore(a, b) ==
    \E i \in 1..(Len(b)) :
        /\ \A j \in 1..(i - 1) : j <= Len(a) /\ a[j] = b[j]
        /\ \/ i = Len(a) + 1
           \/ /\ i <= Len(a)
              /\ \/ a[i][1] < b[i][1]
                 \/ a[i][1] = b[i][1] /\ StrLess(a[i][2], b[i][2])

Sorted == call.name \in {"on_buffers_changed", "on_config_changed"} /\ call.exc = ""

IndexIn(q, x) == CHOOSE i \in 1..Len(q) : q[i] = x

\* C8: the sorted list is the input list in ascending key order, entries
\* with equal keys in input order; and with the default rules and default
\* options, weechat comes after core and before every name whose first
\* component is irc.
C8_SortedByKey ==
    Sorted =>
        LET b  == call.buffers
            q  == call.sorted
            ek == [ i \in 1..Len(q) |-> ExpectedKey(q[i]) ]
        IN  /\ Len(q) = Len(b)
            /\ \A i \in 1..Len(b) : \E j \in 1..Len(q) : q[j] = b[i]
            /\ \A i, j \in 1..Len(q) :
                  i < j => /\ ~KeyBefore(ek[j], ek[i])
                           /\ ek[i] = ek[j] => IndexIn(b, q[i]) < IndexIn(b, q[j])
            /\ (option_rules = DefaultRules /\ ~case_sensitive /\ group_irc) =>
                  \A i, j \in 1..Len(q) :
                     /\ (q[i] = <<NameWeechat>> /\ q[j] = <<NameCore>>) => j < i
                     /\ (q[i] = <<NameWeechat>> /\ q[j][1] = WordIrc) => i < j

\* C8 witness: under the default rules and options a list holding weechat,
\* core and an irc buffer was sorted into another order.
C8_Witness ==
    /\ Sorted
    /\ option_rules = DefaultRules /\ ~case_sensitive /\ group_irc
    /\ call.sorted # call.buffers
    /\ \E i, j, k \in 1..Len(call.sorted) :
          /\ call.sorted[i] = <<NameCore>>
          /\ call.sorted[j] = <<NameWeechat>>
          /\ call.sorted[k][1] = WordIrc
          /\ i < j /\ j < k

\* C10: the key of a buffer is the key of its components, with server
\* inserted at position 1 when grouping is on and the buffer is
\* irc.<x>... with x neither server nor irc_raw, and lower-cased when
\* sorting is not case sensitive: one pair per transformed component.
C10_KeyOfTransformed ==
    Sorted =>
        \A i \in 1..Len(call.buffers) :
            /\ call.keys[i] = ExpectedKey(call.buffers[i])
            /\ Len(call.keys[i]) =
                  Len(call.buffers[i])
                  + (IF group_irc /\ GroupedBuffer(call.buffers[i]) THEN 1 ELSE 0)

\* C10 witness: with grouping on, irc.n.x got the key of irc.server.n.x,
\* and irc.server.n and IRC.n.x kept their components.
C10_Witness ==
    /\ Sorted
    /\ group_irc
    /\ \E i, j, k \in 1..Len(call.buffers) :
          /\ call.buffers[i] = <<WordIrc, <<"n">>, <<"x">> >>
          /\ Len(call.keys[i]) = 4
          /\ call.keys[i][2][2] = WordServer
          /\ call.buffers[j] = <<WordIrc, WordServer, <<"n">> >>
          /\ Len(call.keys[j]) = 3
          /\ call.buffers[k][1] = <<"I", "R", "C">>
          /\ Len(call.keys[k]) = 3

\* The host's buffer list when the last sort began, and after the first k
\* swaps of apply_buffer_order on the sorted list.
HostBefore == [ i \in 1..Len(call.buffers) |-> Join(call.buffers[i]) ]

HostAfterStep(k) == ApplyBufferOrder(SubSeq(call.sorted, 1, k), 1, HostBefore)

\* C18: after apply_buffer_order has swapped, for i = 1..n in order, the
\* buffer named by entry i of the list with position i, the buffer at
\* position i of the host is entry i of the list, for every i; and step i
\* leaves positions 1..i-1 as they were.
C18_SwapsPlaceEveryBuffer ==
    Sorted =>
        /\ host = HostAfterStep(Len(call.sorted))
        /\ Len(host) = Len(call.sorted)
        /\ \A i \in 1..Len(call.sorted) : host[i] = Join(call.sorted[i])
        /\ \A k \in 1..Len(call.sorted) : \A j \in 1..(k - 1) :
              HostAfterStep(k)[j] = HostAfterStep(k - 1)[j]

\* C18 witness: three buffers were put in another order, none of them
\* staying where it was.
C18_Witness ==
    /\ Sorted
    /\ Len(call.sorted) = 3
    /\ \A i \in 1..3 : host[i] # HostBefore[i]
    /\ \A i \in 1..3 : host[i] = Join(call.sorted[i])

(***************************************************************************)
(* SpecCmd: the /autosort command, from the state the script is in once   *)
(* it has loaded with the default rules.                                   *)
(*                                                                         *)
(* An argument is modelled by what parsing makes of it: an index argument  *)
(* is an integer or text that is no integer, a rule argument is            *)
(* "pattern = score" with the pattern text and the score, or text of       *)
(* another form.  wrong_argc says the argument string does not split in    *)
(* the two parts insert, update, move and swap expect.                     *)
(***************************************************************************)
MaxCalls == 2       \* commands run in one behaviour

IndexArg(n)  == [kind |-> "int", n |-> n]
IndexText    == [kind |-> "text", n |-> 0]
RuleArg(text, score) == [kind |-> "rule", pattern |-> text, score |-> score]
RuleText     == [kind |-> "text", pattern |-> <<>>, score |-> 0]

CmdIndexArgs == { IndexArg(0), IndexArg(1), IndexArg(4), IndexArg(5), IndexArg(9), IndexText }

CmdRuleArgs == { RuleArg(<<"w", "*">>, 0), RuleArg(<<"[", "a">>, 1), RuleText }

\* Buffer lists the host may hold when the script loads.
CmdHosts ==
    { <<NameWeechat, <<"i", "r", "c", ".", "n", ".", "x">>, NameCore>>,
      <<NameWeechat, NameCore>> }

\* parse_index_arg(arg)
ParseIndexArg(arg) ==
    IF arg.kind = "int" THEN [exc |-> "", index |-> arg.n]
    ELSE [exc |-> "ValueError", index |-> 0]

\* parse_rule_arg(arg): every failure is turned into ValueError.
ParseRuleArg(arg) ==
    IF arg.kind # "rule" THEN [exc |-> "ValueError", rule |-> None]
    ELSE LET p == PatternInit(arg.pattern)
         IN  IF p.exc # "" THEN [exc |-> "ValueError", rule |-> None]
             ELSE [exc |-> "", rule |-> <<p, arg.score>>]

\* split_args(args, 2): on a wrong count the message is built with
\* 'Expected exactly ' + expected, a str and an int: TypeError.
SplitArgs(wrong_argc) == IF wrong_argc THEN "TypeError" ELSE ""

\* The first exception among those of the argument parsers, in call order.
FirstExc(excs) ==
    IF \A i \in 1..Len(excs) : excs[i] = "" THEN ""
    ELSE excs[CHOOSE i \in 1..Len(excs) : excs[i] # "" /\ \A j \in 1..(i - 1) : excs[j] = ""]

\* What on_config_changed leaves, r being what on_buffers_changed did
\* with the reloaded rules.
ConfigChanged(rules, r) ==
    [rules |-> rules, host |-> r.host, sorted |-> r.exc = "", sort_rules |-> rules.rules]

\* on_config_changed() after RuleList.decode returned or raised: an
\* exception leaves config.rules as it was and ends the callback.
SortReloaded(self, decoded, h, group, sensitive) ==
    IF decoded.exc # ""
    THEN [rules |-> self, host |-> h, sorted |-> FALSE, sort_rules |-> self.rules]
    ELSE ConfigChanged(decoded.obj, OnBuffersChanged(decoded.obj, h, group, sensitive))

\* on_config_changed(): reload, then on_buffers_changed:
\* [rules, host, sort_rules].  An exception in the callback is reported by
\* the host and does not reach the caller of config_option_set.
OnConfigChanged(self, blob, h, group, sensitive) ==
    SortReloaded(self, RuleListDecode(blob), h, group, sensitive)

\* What a command callback did: the exception that left the command
\* function, the callback's return code, the RuleList after the method
\* call, and the steps taken, in order.
CmdCall(name, args, exc, after, events, sort_rules) ==
    [name |-> name, args |-> args, exc |-> exc,
     rc |-> IF exc = "" THEN "WEECHAT_RC_OK"
            ELSE IF exc = "ValueError" THEN "WEECHAT_RC_ERROR"
            ELSE "raised",
     after |-> after, events |-> events, sort_rules |-> sort_rules]

\* The body common to the rule editing commands: parse_exc is the
\* exception of the argument parsers, m the result of the RuleList method.
\* After the method returns: config.save_rules() (encode, then
\* config_option_set, which runs on_config_changed), command_rule_list.
Command(name, args, parse_exc, m) ==
    IF parse_exc # "" THEN
        /\ call' = CmdCall(name, args, parse_exc, rulelist, <<>>, <<>>)
        /\ UNCHANGED <<rulelist, option_rules, host>>
    ELSE \E r \in { m } :
        IF r.exc # "" THEN
            /\ call' = CmdCall(name, args, r.exc, r.self, <<"method">>, <<>>)
            /\ rulelist' = r.self
            /\ UNCHANGED <<option_rules, host>>
        ELSE
            \E encoded \in { RuleListEncode(r.self) } :
            \E changed \in { OnConfigChanged(r.self, encoded.blob, host,
                                              group_irc, case_sensitive) } :
                /\ encoded.exc = ""
                /\ option_rules' = encoded.blob
                /\ rulelist' = changed.rules
                /\ host' = changed.host
                /\ call' = CmdCall(name, args, "", r.self,
                                   <<"method", "encode", "config_option_set", "reload">>
                                       \o (IF changed.sorted THEN <<"sort">> ELSE <<>>)
                                       \o <<"list">>,
                                   changed.sort_rules)

CmdFrame ==
    /\ ncalls < MaxCalls
    /\ ncalls' = ncalls + 1
    /\ pre' = rulelist
    /\ UNCHANGED <<case_sensitive, group_irc, pattern, input, obj, matched>>

\* /autosort rule list
CommandRuleList ==
    /\ CmdFrame
    /\ call' = CmdCall("list", <<>>, "", rulelist, <<"list">>, <<>>)
    /\ UNCHANGED <<rulelist, option_rules, host>>

\* /autosort rule add <pattern> = <score>
CommandRuleAdd ==
    \E arg \in CmdRuleArgs :
        \E rule \in { ParseRuleArg(arg) } :
            /\ CmdFrame
            /\ Command("add", <<arg>>, rule.exc, RuleListAppend(rulelist, rule.rule))

\* /autosort rule insert <index> <pattern> = <score>
CommandRuleInsert ==
    \E wrong_argc \in BOOLEAN, a \in CmdIndexArgs, arg \in CmdRuleArgs :
        \E index \in { ParseIndexArg(a) }, rule \in { ParseRuleArg(arg) } :
            /\ CmdFrame
            /\ wrong_argc => (a = IndexText /\ arg = RuleText)
            /\ Command("insert", <<wrong_argc, a, arg>>,
                       FirstExc(<<SplitArgs(wrong_argc), index.exc, rule.exc>>),
                       RuleListInsert(rulelist, index.index, rule.rule))

\* /autosort rule update <index> <pattern> = <score>
CommandRuleUpdate ==
    \E wrong_argc \in BOOLEAN, a \in CmdIndexArgs, arg \in CmdRuleArgs :
        \E index \in { ParseIndexArg(a) }, rule \in { ParseRuleArg(arg) } :
            /\ CmdFrame
            /\ wrong_argc => (a = IndexText /\ arg = RuleText)
            /\ Command("update", <<wrong_argc, a, arg>>,
                       FirstExc(<<SplitArgs(wrong_argc), index.exc, rule.exc>>),
                       RuleListSetItem(rulelist, index.index, rule.rule))

\* /autosort rule delete <index>
CommandRuleDelete ==
    \E a \in CmdIndexArgs :
        \E index \in { ParseIndexArg(a) } :
            /\ CmdFrame
            /\ Command("delete", <<a>>, index.exc, RuleListPop(rulelist, index.index))

\* /autosort rule move <index_from> <index_to>
CommandRuleMove ==
    \E wrong_argc \in BOOLEAN, a \in CmdIndexArgs, b \in CmdIndexArgs :
        \E index_a \in { ParseIndexArg(a) }, index_b \in { ParseIndexArg(b) } :
            /\ CmdFrame
            /\ wrong_argc => (a = IndexText /\ b = IndexText)
            /\ Command("move", <<wrong_argc, a, b>>,
                       FirstExc(<<SplitArgs(wrong_argc), index_a.exc, index_b.exc>>),
                       RuleListMove(rulelist, index_a.index, index_b.index))

\* /autosort rule swap <index_a> <index_b>
CommandRuleSwap ==
    \E wrong_argc \in BOOLEAN, a \in CmdIndexArgs, b \in CmdIndexArgs :
        \E index_a \in { ParseIndexArg(a) }, index_b \in { ParseIndexArg(b) } :
            /\ CmdFrame
            /\ wrong_argc => (a = IndexText /\ b = IndexText)
            /\ Command("swap", <<wrong_argc, a, b>>,
                       FirstExc(<<SplitArgs(wrong_argc), index_a.exc, index_b.exc>>),
                       RuleListSwap(rulelist, index_a.index, index_b.index))

\* The script has loaded: Config('autosort') with the default rules and
\* options, then on_config_changed().
InitCmd ==
    /\ option_rules = DefaultRules
    /\ case_sensitive = FALSE
    /\ group_irc = TRUE
    /\ rulelist = RuleListDecode(option_rules).obj
    /\ \E h \in CmdHosts : host = OnBuffersChanged(rulelist, h, group_irc, case_sensitive).host
    /\ call = CmdCall("none", <<>>, "", rulelist, <<>>, <<>>)
    /\ pre = rulelist
    /\ ncalls = 0
    /\ pattern = <<>>
    /\ input = <<>>
    /\ obj = None
    /\ matched = FALSE

NextCmd ==
    \/ CommandRuleList
    \/ CommandRuleAdd
    \/ CommandRuleInsert
    \/ CommandRuleUpdate
    \/ CommandRuleDelete
    \/ CommandRuleMove
    \/ CommandRuleSwap

SpecCmd == InitCmd /\ [][NextCmd]_vars

EditCommands == {"add", "insert", "update", "delete", "move", "swap"}

\* C9: a rule editing command that changes the rule sequence encodes the
\* changed table into the configuration option and then sorts the buffers
\* with the changed rules, before it returns.
C9_MutationSavedThenSorted ==
    (call.name \in EditCommands /\ call.after.rules # pre.rules) =>
        /\ \E i, j \in 1..Len(call.events) :
              /\ i < j
              /\ call.events[i] = "config_option_set"
              /\ call.events[j] = "sort"
        /\ option_rules = RuleListEncode(call.after).blob
        /\ Pairs(call.sort_rules) = Pairs(call.after.rules)

\* The (pattern text, score) pairs decoded from the rules option.
StoredPairs == Pairs(RuleListDecode(option_rules).obj.rules)

\* C17: when an /autosort command callback has returned, accepted
\* (WEECHAT_RC_OK) or rejected (WEECHAT_RC_ERROR), the rule sequence in
\* memory is the one decoded from the stored rules option; a rejected
\* command has changed neither.
C17_RulesMatchStoredOption ==
    (call.name # "none" /\ call.rc \in {"WEECHAT_RC_OK", "WEECHAT_RC_ERROR"}) =>
        /\ Pairs(rulelist.rules) = StoredPairs
        /\ call.rc = "WEECHAT_RC_ERROR" =>
              /\ rulelist.rules = pre.rules
              /\ StoredPairs = Pairs(pre.rules)

====
